---- MODULE Spec2Model ----
(***************************************************************************)
(* Model of saf/theories.py: the label variable allocator with its         *)
(* process-wide cache, the five complete-semantics theory templates, the   *)
(* DIMACS encoder (DIMACSParser.parse / DIMACSInput) and the result        *)
(* decoder (extractExtention / extractLabeling).                           *)
(*                                                                         *)
(* Text (str) is a sequence of one-character strings.                      *)
(***************************************************************************)
EXTENDS Integers, Sequences, FiniteSets, TLC

VARIABLES
    cache,        \* _label_var_cache: label_key -> label variable
    hist,         \* every (arg, label, value) an allocator call has returned
    framework,    \* the framework handed to parse
    theories,     \* TheoryParser._theories of CompleteLabelingDIMACSParser
    raw_clauses,  \* clauses of the last generate / parse
    dimacs,       \* the DIMACSInput returned by parse
    first_text,   \* str() of the first DIMACSInput parse returned for framework
    runs,         \* number of parse calls on framework
    added,        \* number of addClause calls on dimacs
    labeling,     \* labeling the solver line was synthesised from
    toks,         \* tokens the solver line was written from
    sat_output,   \* the solver output text
    result,       \* outcome of the last extract* call
    op            \* name of the last operation

vars == <<cache, hist, framework, theories, raw_clauses, dimacs,
          first_text, runs, added, labeling, toks, sat_output, result, op>>

(***************************************************************************)
(* Bounds                                                                  *)
(***************************************************************************)
MaxArgs == 2      \* frameworks have 0..MaxArgs arguments
MaxRuns == 2      \* parse calls per framework
MaxAdded == 1     \* addClause calls per DIMACSInput
MaxTokens == 3    \* tokens between status and last token of a free-form line
MaxLit == 2       \* integers -MaxLit..MaxLit appear in free-form lines

(***************************************************************************)
(* saf.argument.Label: an integer enumeration of three labels              *)
(***************************************************************************)
LabelIn == 1
LabelOut == 2
LabelUnd == 3
Label == {LabelIn, LabelOut, LabelUnd}
LenLabel == Cardinality(Label)

(***************************************************************************)
(* Python builtins on text: str(int), int(str), str.split(' '), str.join   *)
(***************************************************************************)
Digits == <<"0", "1", "2", "3", "4", "5", "6", "7", "8", "9">>

RECURSIVE NatToStr(_)
NatToStr(n) ==
    IF n < 10 THEN <<Digits[n + 1]>>
    ELSE NatToStr(n \div 10) \o <<Digits[(n % 10) + 1]>>

IntToStr(i) == IF i < 0 THEN <<"-">> \o NatToStr(-i) ELSE NatToStr(i)

IsDigit(c) == \E d \in 1..10 : Digits[d] = c

DigitVal(c) == (CHOOSE d \in 1..10 : Digits[d] = c) - 1

\* int(s) succeeds: an optional sign followed by one or more digits
IsIntStr(s) ==
    LET body == IF Len(s) > 0 /\ s[1] = "-" THEN Tail(s) ELSE s
    IN  Len(body) > 0 /\ \A i \in 1..Len(body) : IsDigit(body[i])

RECURSIVE StrToNat(_)
StrToNat(s) ==
    IF Len(s) = 0 THEN 0
    ELSE 10 * StrToNat(SubSeq(s, 1, Len(s) - 1)) + DigitVal(s[Len(s)])

StrToInt(s) == IF s[1] = "-" THEN -StrToNat(Tail(s)) ELSE StrToNat(s)

\* s.split(sep): the pieces between consecutive separators, empty ones kept
Split(s, sep) ==
    LET cuts == {0} \cup {i \in 1..Len(s) : s[i] = sep} \cup {Len(s) + 1}
        Cut(k) == CHOOSE i \in cuts : Cardinality({j \in cuts : j < i}) = k - 1
    IN  [k \in 1..(Cardinality(cuts) - 1) |->
            SubSeq(s, Cut(k) + 1, Cut(k + 1) - 1)]

RECURSIVE Join(_, _)
Join(strs, sep) ==
    IF Len(strs) = 0 THEN <<>>
    ELSE IF Len(strs) = 1 THEN strs[1]
    ELSE strs[1] \o <<sep>> \o Join(Tail(strs), sep)

(***************************************************************************)
(* Label variable allocator                                                *)
(***************************************************************************)
calculateLabelVar_noOffset(arg_value, label) == LenLabel * arg_value + label

calculateLabelVar(arg_value, label) == LenLabel * (arg_value - 1) + label

label_key_noLabel(arg_value, label) == <<"-">> \o IntToStr(arg_value)

\* f'{str(label)}-{str(arg_value)}'
label_key(arg_value, label) ==
    IntToStr(label) \o <<"-">> \o IntToStr(arg_value)

\* The returned value and the cache the call leaves behind
argToLabelVar(c, arg_value, label) ==
    LET key == label_key(arg_value, label)
    IN  IF key \notin DOMAIN c
        THEN LET label_var == calculateLabelVar(arg_value, label)
             IN  [val |-> label_var, cache |-> c @@ (key :> label_var)]
        ELSE [val |-> c[key], cache |-> c]

inLabelVariable(c, arg_value) == argToLabelVar(c, arg_value, LabelIn)
outLabelVariable(c, arg_value) == argToLabelVar(c, arg_value, LabelOut)
undLabelVariable(c, arg_value) == argToLabelVar(c, arg_value, LabelUnd)

EmptyCache == [k \in {} |-> 0]


(***************************************************************************)
(* saf.framework.FrameworkRepresentation, as the theories query it.        *)
(* A framework is [n, att]: arguments 1..n, att the set of <<b, a>> with   *)
(* b attacking a.                                                          *)
(***************************************************************************)
RECURSIVE SortedSeq(_)
SortedSeq(S) ==
    IF S = {} THEN <<>>
    ELSE LET m == CHOOSE x \in S : \A y \in S : x <= y
         IN  <<m>> \o SortedSeq(S \ {m})

len(f) == f.n
getArguments(f) == [i \in 1..f.n |-> i]
getAttackers(f, a) == SortedSeq({b \in 1..f.n : <<b, a>> \in f.att})
getAttackedBy(f, a) == SortedSeq({b \in 1..f.n : <<a, b>> \in f.att})

Frameworks ==
    UNION {[n : {k}, att : SUBSET ((1..k) \X (1..k))] : k \in 0..MaxArgs}

EmptyFramework == [n |-> 0, att |-> {}]

(***************************************************************************)
(* Theory templates.  A literal of a template is the allocator call that   *)
(* yields it, [sign, label, arg]; Resolve makes the calls in the order     *)
(* Python evaluates them, threading the cache through.                     *)
(***************************************************************************)
inLab(a) == [sign |-> 1, label |-> LabelIn, arg |-> a]
outLab(a) == [sign |-> 1, label |-> LabelOut, arg |-> a]
undLab(a) == [sign |-> 1, label |-> LabelUnd, arg |-> a]
Neg(lit) == [lit EXCEPT !.sign = -lit.sign]

uniqueness_theory(a, f) ==
    << <<inLab(a), outLab(a), undLab(a)>>,
       <<Neg(inLab(a)), Neg(outLab(a))>>,
       <<Neg(inLab(a)), Neg(undLab(a))>>,
       <<Neg(outLab(a)), Neg(undLab(a))>> >>

in_complete_1_perAttacker(a, f) ==
    LET attackers == getAttackers(f, a)
    IN  [i \in 1..Len(attackers) |-> <<Neg(outLab(attackers[i])), inLab(a)>>]

in_complete_1(a, f) ==
    LET attackers == getAttackers(f, a)
    IN  << [i \in 1..Len(attackers) |-> Neg(outLab(attackers[i]))]
           \o <<inLab(a)>> >>

in_complete_2(a, f) ==
    LET attacked == getAttackedBy(f, a)
    IN  [i \in 1..Len(attacked) |-> <<Neg(inLab(a)), outLab(attacked[i])>>]

out_complete_1(a, f) ==
    LET attackers == getAttackers(f, a)
    IN  [i \in 1..Len(attackers) |-> <<Neg(inLab(attackers[i])), outLab(a)>>]

out_complete_2(a, f) ==
    LET attackers == getAttackers(f, a)
    IN  << [i \in 1..Len(attackers) |-> inLab(attackers[i])]
           \o <<Neg(outLab(a))>> >>

\* CNFTheory.generate: self._template(argument_value, framework)
generate(theory, argument_value, f) ==
    CASE theory = "uniqueness_theory" -> uniqueness_theory(argument_value, f)
      [] theory = "in_complete_1" -> in_complete_1(argument_value, f)
      [] theory = "in_complete_2" -> in_complete_2(argument_value, f)
      [] theory = "out_complete_1" -> out_complete_1(argument_value, f)
      [] theory = "out_complete_2" -> out_complete_2(argument_value, f)

RECURSIVE generateAll(_, _, _)
generateAll(theory, argument_values, f) ==
    IF Len(argument_values) = 0 THEN <<>>
    ELSE generate(theory, argument_values[1], f)
         \o generateAll(theory, Tail(argument_values), f)

\* The tuple CNFTheory.fromTemplates(...) is unpacked into
CompleteLabelingTheories ==
    <<"uniqueness_theory", "in_complete_1", "in_complete_2",
      "out_complete_1", "out_complete_2">>

TheoriesAfterIteration_generator(ts) == <<>>

\* self._theories after "for theory in self._theories": a tuple is not consumed
TheoriesAfterIteration(ts) == ts

RECURSIVE ResolveClause(_, _)
ResolveClause(c, clause) ==
    IF Len(clause) = 0 THEN [lits |-> <<>>, cache |-> c]
    ELSE LET r == argToLabelVar(c, clause[1].arg, clause[1].label)
             rest == ResolveClause(r.cache, Tail(clause))
         IN  [lits |-> <<clause[1].sign * r.val>> \o rest.lits,
              cache |-> rest.cache]

RECURSIVE Resolve(_, _)
Resolve(c, clauses) ==
    IF Len(clauses) = 0 THEN [clauses |-> <<>>, cache |-> c]
    ELSE LET r == ResolveClause(c, clauses[1])
             rest == Resolve(r.cache, Tail(clauses))
         IN  [clauses |-> <<r.lits>> \o rest.clauses, cache |-> rest.cache]

(***************************************************************************)
(* DIMACS encoder                                                          *)
(***************************************************************************)
DIMACSHeader(num_of_vars, num_of_clauses) ==
    [vars |-> num_of_vars, clauses |-> num_of_clauses]

HeaderStr(h) ==
    <<"p", " ", "c", "n", "f", " ">> \o IntToStr(h.vars) \o <<" ">>
    \o IntToStr(h.clauses) \o <<"\n">>

incrementClauses(h) == [h EXCEPT !.clauses = h.clauses + 1]

DIMACSInput(num_of_vars, num_of_clauses, content) ==
    [header |-> DIMACSHeader(num_of_vars, num_of_clauses), content |-> content]

DimacsStr(d) == HeaderStr(d.header) \o d.content

addClause(d, dimacs_clause) ==
    [header |-> incrementClauses(d.header),
     content |-> d.content \o dimacs_clause]

ClauseLine(clause) ==
    Join([i \in 1..Len(clause) |-> IntToStr(clause[i])], " ") \o <<" ", "0">>

parseCNFTheory(theory) ==
    Join([i \in 1..Len(theory) |-> ClauseLine(theory[i])], "\n") \o <<"\n">>

\* The loop of parse over self._theories: clauses in order, their running count
\* and the cache the allocator calls leave
RECURSIVE ParseLoop(_, _, _)
ParseLoop(c, ts, f) ==
    IF Len(ts) = 0 THEN [clauses |-> <<>>, count |-> 0, cache |-> c]
    ELSE LET new_clauses == Resolve(c, generateAll(ts[1], getArguments(f), f))
             rest == ParseLoop(new_clauses.cache, Tail(ts), f)
         IN  [clauses |-> new_clauses.clauses \o rest.clauses,
              count |-> Len(new_clauses.clauses) + rest.count,
              cache |-> rest.cache]

parse(c, ts, f) ==
    LET num_of_vars == len(f) * LenLabel
        loop == ParseLoop(c, ts, f)
        dimacs_content == parseCNFTheory(loop.clauses)
    IN  [dimacs |-> DIMACSInput(num_of_vars, loop.count, dimacs_content),
         raw_clauses |-> loop.clauses,
         cache |-> loop.cache]

(***************************************************************************)
(* Result decoder.  An outcome is [raised, value]: raised when int() threw *)
(* ValueError, else the returned list.                                     *)
(***************************************************************************)
Raised == [raised |-> TRUE, value |-> <<>>]
Returned(v) == [raised |-> FALSE, value |-> v]

\* list[1:-1]
Slice1m1(parts) == SubSeq(parts, 2, Len(parts) - 1)

IntList_skipInvalid(tokens) ==
    LET valid == SelectSeq(tokens, IsIntStr)
    IN  Returned([i \in 1..Len(valid) |-> StrToInt(valid[i])])

\* [int(lab_var) for lab_var in tokens]
IntList(tokens) ==
    IF \E i \in 1..Len(tokens) : ~IsIntStr(tokens[i]) THEN Raised
    ELSE Returned([i \in 1..Len(tokens) |-> StrToInt(tokens[i])])

\* k in range(1, stop, step)
InRange1(k, stop, step) == 1 <= k /\ k < stop /\ (k - 1) % step = 0

Abs(x) == IF x < 0 THEN -x ELSE x

extractExtention(output) ==
    LET model == IntList(Slice1m1(Split(output, " ")))
        Keep(lab_var) ==
            lab_var > 0 /\ InRange1(Abs(lab_var), Len(model.value), LenLabel)
    IN  IF model.raised THEN Raised
        ELSE Returned(SelectSeq(model.value, Keep))

IsPositive_nonZero(x) == x # 0

\* lambda x: x > 0
IsPositive(x) == x > 0

extractLabeling(output) ==
    LET model == IntList(Slice1m1(Split(output, " ")))
    IN  IF model.raised THEN Raised
        ELSE Returned(SelectSeq(model.value, IsPositive))

(***************************************************************************)
(* Inputs                                                                  *)
(***************************************************************************)
\* Ids the allocator is called with: the valid ones and 0, just below them
ArgIds == 0..MaxArgs

\* A token of a solver line: an integer written by the solver, or other text
IntTok(i) == [int |-> TRUE, val |-> i, text |-> IntToStr(i)]
JunkTok(t) == [int |-> FALSE, val |-> 0, text |-> t]
StatusTok == JunkTok(<<"s">>)
MidToks ==
    {IntTok(i) : i \in (-MaxLit)..MaxLit}
    \cup {JunkTok(<<"x">>), JunkTok(<<"-">>), JunkTok(<<>>)}
LastToks == {IntTok(0), JunkTok(<<"x">>)}

LineOf(tokens) == Join([i \in 1..Len(tokens) |-> tokens[i].text], " ")

\* A line of a status token, k further tokens and a last token
FreeLine(mid, last) == <<StatusTok>> \o mid \o <<last>>

\* Complete labelings: In iff all attackers Out, Out iff some attacker In
IsComplete(f, lab) ==
    \A a \in 1..f.n :
        /\ lab[a] = LabelIn <=> \A b \in 1..f.n : <<b, a>> \in f.att => lab[b] = LabelOut
        /\ lab[a] = LabelOut <=> \E b \in 1..f.n : <<b, a>> \in f.att /\ lab[b] = LabelIn

CompleteLabelings(f) == {lab \in [1..f.n -> Label] : IsComplete(f, lab)}

\* The variables a labeling makes true
TrueVars(lab) == {calculateLabelVar(a, lab[a]) : a \in DOMAIN lab}

\* '<status> l1 ... l3N 0' for a labeling of N arguments
LabelingToks(lab) ==
    LET n == Len(lab)
    IN  <<StatusTok>>
        \o [v \in 1..(LenLabel * n) |->
               IntTok(IF v \in TrueVars(lab) THEN v ELSE -v)]
        \o <<IntTok(0)>>

NoLabeling == [known |-> FALSE, lab |-> <<>>]
NoDimacs == DIMACSInput(0, 0, <<>>)

\* One formatted clause line handed to addClause
AddedClauses == {parseCNFTheory(<< <<1>> >>), parseCNFTheory(<< <<-1, 2>> >>)}

(***************************************************************************)
(* State after import of the module                                        *)
(***************************************************************************)
InitCommon ==
    /\ cache = EmptyCache
    /\ hist = {}
    /\ theories = CompleteLabelingTheories
    /\ raw_clauses = <<>>
    /\ dimacs = NoDimacs
    /\ first_text = <<>>
    /\ runs = 0
    /\ added = 0
    /\ result = Returned(<<>>)
    /\ op = "import"

NoDecodeInput ==
    /\ framework = EmptyFramework
    /\ labeling = NoLabeling
    /\ toks = <<>>
    /\ sat_output = <<>>

InitAlloc == InitCommon /\ NoDecodeInput

InitEncode ==
    /\ InitCommon
    /\ framework \in Frameworks
    /\ labeling = NoLabeling
    /\ toks = <<>>
    /\ sat_output = <<>>

InitDecode ==
    /\ InitCommon
    /\ \/ /\ framework = EmptyFramework
          /\ labeling = NoLabeling
          /\ \E k \in 0..MaxTokens : \E mid \in [1..k -> MidToks], last \in LastToks :
                toks = FreeLine(mid, last)
       \/ /\ framework \in Frameworks
          /\ \E lab \in CompleteLabelings(framework) :
                /\ labeling = [known |-> TRUE, lab |-> lab]
                /\ toks = LabelingToks(lab)
    /\ sat_output = LineOf(toks)

(***************************************************************************)
(* Allocator operations                                                    *)
(***************************************************************************)
EncodeVars == <<framework, theories, dimacs, first_text, runs, added>>
DecodeVars == <<labeling, toks, sat_output, result>>

Allocate(name, r, a, label) ==
    /\ cache' = r.cache
    /\ hist' = hist \cup {<<a, label, r.val>>}
    /\ op' = name
    /\ UNCHANGED <<raw_clauses, EncodeVars, DecodeVars>>

InLabelVariable ==
    \E a \in ArgIds : Allocate("inLabelVariable", inLabelVariable(cache, a), a, LabelIn)

OutLabelVariable ==
    \E a \in ArgIds : Allocate("outLabelVariable", outLabelVariable(cache, a), a, LabelOut)

UndLabelVariable ==
    \E a \in ArgIds : Allocate("undLabelVariable", undLabelVariable(cache, a), a, LabelUnd)

\* CNFTheory(uniqueness_theory).generate(a, framework)
Generate ==
    \E a \in ArgIds :
        LET templ == generate("uniqueness_theory", a, framework)
            r == Resolve(cache, templ)
        IN  /\ cache' = r.cache
            /\ raw_clauses' = r.clauses
            /\ hist' = hist \cup UNION
                   {{<<templ[i][j].arg, templ[i][j].label,
                       templ[i][j].sign * r.clauses[i][j]>> :
                         j \in 1..Len(templ[i])} : i \in 1..Len(templ)}
            /\ op' = "generate"
            /\ UNCHANGED <<EncodeVars, DecodeVars>>

(***************************************************************************)
(* Encoder operations                                                      *)
(***************************************************************************)
\* CompleteLabelingDIMACSParser.parse(framework)
Parse ==
    /\ runs < MaxRuns
    /\ LET r == parse(cache, theories, framework)
       IN  /\ cache' = r.cache
           /\ theories' = TheoriesAfterIteration(theories)
           /\ raw_clauses' = r.raw_clauses
           /\ dimacs' = r.dimacs
           /\ first_text' = IF runs = 0 THEN DimacsStr(r.dimacs) ELSE first_text
    /\ runs' = runs + 1
    /\ added' = 0
    /\ op' = "parse"
    /\ UNCHANGED <<hist, framework, DecodeVars>>

\* dimacs.addClause(dimacs_clause)
AddClause ==
    /\ runs > 0
    /\ added < MaxAdded
    /\ \E dimacs_clause \in AddedClauses :
          dimacs' = addClause(dimacs, dimacs_clause)
    /\ added' = added + 1
    /\ op' = "addClause"
    /\ UNCHANGED <<cache, hist, framework, theories, raw_clauses,
                   first_text, runs, DecodeVars>>

\* The caller turns to another framework, in the same process
NextFramework ==
    /\ op = "parse"
    /\ \E f \in Frameworks : framework' = f
    /\ dimacs' = NoDimacs
    /\ raw_clauses' = <<>>
    /\ first_text' = <<>>
    /\ runs' = 0
    /\ added' = 0
    /\ op' = "framework"
    /\ UNCHANGED <<cache, hist, theories, DecodeVars>>

(***************************************************************************)
(* Decoder operations                                                      *)
(***************************************************************************)
ExtractExtention ==
    /\ result' = extractExtention(sat_output)
    /\ op' = "extractExtention"
    /\ UNCHANGED <<cache, hist, raw_clauses, EncodeVars,
                   labeling, toks, sat_output>>

ExtractLabeling ==
    /\ result' = extractLabeling(sat_output)
    /\ op' = "extractLabeling"
    /\ UNCHANGED <<cache, hist, raw_clauses, EncodeVars,
                   labeling, toks, sat_output>>

(***************************************************************************)
(* Specifications                                                          *)
(***************************************************************************)
NextAlloc == InLabelVariable \/ OutLabelVariable \/ UndLabelVariable \/ Generate
SpecAlloc == InitAlloc /\ [][NextAlloc]_vars

NextEncode == Parse \/ AddClause \/ NextFramework
SpecEncode == InitEncode /\ [][NextEncode]_vars

NextDecode == ExtractExtention \/ ExtractLabeling
SpecDecode == InitDecode /\ [][NextDecode]_vars

(***************************************************************************)
(* Properties                                                              *)
(***************************************************************************)
ValidCalls == {h \in hist : h[1] >= 1}

\* C4: every allocator call with an id A >= 1 and label L returned
\* 3*(A-1) + offset(L), whatever the cache held: equal pairs got equal
\* integers, different pairs different integers, and the pair is recovered
\* from the integer.
C4_AllocatorBijection ==
    /\ \A h \in ValidCalls : h[3] = 3 * (h[1] - 1) + h[2]
    /\ \A g, h \in ValidCalls : (g[1] = h[1] /\ g[2] = h[2]) <=> g[3] = h[3]
    /\ \A h \in ValidCalls :
          /\ h[1] = ((h[3] - 1) \div 3) + 1
          /\ h[2] = ((h[3] - 1) % 3) + 1

\* Every label of two arguments has been allocated, by direct calls and by a theory
C4_Witness ==
    /\ op = "generate"
    /\ \A a \in 1..2 : \A l \in Label :
          \E h \in ValidCalls : h[1] = a /\ h[2] = l
    /\ Cardinality(DOMAIN cache) >= 6

\* C5: a call with an argument id below 1 fails: no value is returned for it
\* and nothing is stored in the cache for it.
C5_InvalidIdRejected ==
    /\ \A h \in hist : h[1] >= 1
    /\ \A a \in ArgIds : \A l \in Label :
          a < 1 => label_key(a, l) \notin DOMAIN cache

Edges(f) == Cardinality(f.att)

\* C3: the header of the DIMACSInput parse returns counts 6N + 2E clauses.
C3_ClauseCount ==
    op = "parse" => dimacs.header.clauses = 6 * framework.n + 2 * Edges(framework)

C3_Witness ==
    /\ op = "parse"
    /\ framework.n = 2
    /\ Edges(framework) = 3
    /\ dimacs.header.clauses = 18

AllLiterals ==
    UNION {{raw_clauses[i][j] : j \in 1..Len(raw_clauses[i])} :
           i \in 1..Len(raw_clauses)}

\* C10: after parse the header declares 3N variables and every literal of
\* every clause has an absolute value in 1..3N.
C10_VariableRange ==
    op = "parse" =>
        /\ dimacs.header.vars = 3 * framework.n
        /\ \A lit \in AllLiterals : 1 <= Abs(lit) /\ Abs(lit) <= dimacs.header.vars

C10_Witness ==
    /\ op = "parse"
    /\ framework.n = 2
    /\ framework.att # {}
    /\ 6 \in AllLiterals
    /\ -1 \in AllLiterals

\* C7: every parse of a framework yields the text of the first parse of it,
\* which is the text a process with an empty cache yields.
C7_Determinism ==
    op = "parse" =>
        /\ DimacsStr(dimacs) = first_text
        /\ DimacsStr(dimacs) =
               DimacsStr(parse(EmptyCache, CompleteLabelingTheories, framework).dimacs)

\* Second parse of a framework, reached after another framework filled the cache
C7_Witness ==
    /\ op = "parse"
    /\ runs = 2
    /\ framework.n = 1
    /\ framework.att # {}
    /\ Cardinality(DOMAIN cache) = 6

Satisfies(asg, clauses) ==
    \A i \in 1..Len(clauses) : \E j \in 1..Len(clauses[i]) :
        \/ clauses[i][j] > 0 /\ clauses[i][j] \in asg
        \/ clauses[i][j] < 0 /\ -clauses[i][j] \notin asg

SatAssignments ==
    {asg \in SUBSET (1..(3 * framework.n)) : Satisfies(asg, raw_clauses)}

\* C1: the assignments satisfying the clauses parse generated are exactly the
\* assignments of the complete labelings of the framework, one for each.
C1_CompleteAxiomatization ==
    op = "parse" =>
        SatAssignments = {TrueVars(lab) : lab \in CompleteLabelings(framework)}

BodyPieces == Split(dimacs.content, "\n")
BodyLines == SubSeq(BodyPieces, 1, Len(BodyPieces) - 1)

IsClauseLine(line) ==
    LET ts == Split(line, " ")
    IN  /\ Len(ts) >= 2
        /\ ts[Len(ts)] = <<"0">>
        /\ \A i \in 1..(Len(ts) - 1) : IsIntStr(ts[i]) /\ StrToInt(ts[i]) # 0

\* C9: the body has as many lines as the header counts clauses, each line
\* literals separated by single spaces, then " 0" and a newline.
C9_BodyMatchesHeader ==
    op \in {"parse", "addClause"} =>
        /\ BodyPieces[Len(BodyPieces)] = <<>>
        /\ Len(BodyLines) = dimacs.header.clauses
        /\ \A i \in 1..Len(BodyLines) : IsClauseLine(BodyLines[i])

InArguments(lab) == SortedSeq({a \in DOMAIN lab : lab[a] = LabelIn})

\* C2: decoding the line written for a complete labeling returns the ids of
\* the arguments labeled In.
C2_RoundTripExtension ==
    (op = "extractExtention" /\ labeling.known) =>
        result = Returned(InArguments(labeling.lab))

MidOf(tokens) == SubSeq(tokens, 2, Len(tokens) - 1)

IsSolverLine(tokens) ==
    /\ Len(tokens) >= 2
    /\ tokens[Len(tokens)] = IntTok(0)
    /\ \A i \in 2..Len(tokens) : tokens[i].int

PositiveVals(tokens) ==
    LET Pos(t) == t.val >= 1
        kept == SelectSeq(tokens, Pos)
    IN  [i \in 1..Len(kept) |-> kept[i].val]

\* C8: for a status token, signed integers and a closing 0, extractLabeling
\* returns the positive integers in input order and nothing else.
C8_LabelingIsPositives ==
    (op = "extractLabeling" /\ IsSolverLine(toks)) =>
        result = Returned(PositiveVals(MidOf(toks)))

C8_Witness ==
    /\ op = "extractLabeling"
    /\ IsSolverLine(toks)
    /\ Len(toks) = 5
    /\ toks[2].val < 0
    /\ toks[3].val = 0
    /\ toks[4].val > 0
    /\ result = Returned(<<toks[4].val>>)

ExtractOps == {"extractExtention", "extractLabeling"}

\* C6 as stated: a token after the status token that is no integer makes
\* the decoder fail.
C6_AnyBadTokenRaises ==
    (op \in ExtractOps /\ \E i \in 2..Len(toks) : ~toks[i].int) => result.raised

\* C6: a token that is no integer, after the status token and before the last
\* token, makes the decoder fail with no result; the last token is dropped
\* unread.
C6_InnerBadTokenRaises ==
    (op \in ExtractOps /\ \E i \in 2..(Len(toks) - 1) : ~toks[i].int) =>
        result = Raised

C6_Witness ==
    /\ op = "extractExtention"
    /\ Len(toks) = 5
    /\ toks[2].int /\ toks[2].val > 0
    /\ ~toks[3].int
    /\ toks[4].int
    /\ result = Raised

====
